---- MODULE Spec2Model ----
(***************************************************************************)
(* Vec3 (src/src/vec3.rs): a three-component f32 vector with its arithmetic *)
(* operators and geometric operations.                                      *)
(*                                                                          *)
(* f32 is modelled as a binary floating-point format of the IEEE-754 kind,  *)
(* scaled down: Precision significand bits (f32: 24), exponents             *)
(* 1-EMax .. EMax (f32: EMax = 127), subnormals, signed zeros, the two      *)
(* infinities and one NaN, with round-to-nearest, ties-to-even.  A finite   *)
(* value is sign * mag * 2^-Frac, mag a natural number.                     *)
(***************************************************************************)
EXTENDS Integers, Sequences, FiniteSets

\* ------------------------------------------------------------------ format

Precision == 5
EMax == 4

RECURSIVE Pow2(_)
Pow2(n) ==
    IF n = 0 THEN 1 ELSE 2 * Pow2(n - 1)

\* Number of fraction bits of the unit: the smallest subnormal is 2^-Frac.
Frac == EMax + Precision - 2
\* Number of binades above the subnormal one.
ERange == 2 * EMax - 1
OneMag == Pow2(Frac)
MaxMag == (Pow2(Precision) - 1) * Pow2(ERange)
OverflowMag == Pow2(Precision) * Pow2(ERange)

\* As in the IEEE-754 encoding, an infinity sits at the overflow threshold
\* 2^(EMax+1) and NaN above it; mag is read as a value only when cls = "fin".
Fin(n, m) == [cls |-> "fin", neg |-> n, mag |-> m]
Inf(n) == [cls |-> "inf", neg |-> n, mag |-> OverflowMag]
NaN == [cls |-> "nan", neg |-> FALSE, mag |-> OverflowMag + 1]

\* The exponent (in units) of the binade that holds magnitude q.
BinadeOf(q) ==
    CHOOSE e \in 0..ERange :
        /\ q < Pow2(Precision + e)
        /\ (e = 0 \/ q >= Pow2(Precision + e - 1))

RepMags ==
    {m * Pow2(e) : m \in 0..(Pow2(Precision) - 1), e \in 0..ERange}

IsNaN(x) == x.cls = "nan"
IsInf(x) == x.cls = "inf"
IsFin(x) == x.cls = "fin"
IsZero(x) == x.cls = "fin" /\ x.mag = 0

\* The magnitude num/den (in units) rounded to nearest, ties to even; a value
\* that rounds to 2^(EMax+1) or more overflows to infinity.
Round(n, num, den) ==
    LET q == num \div den
    IN  IF q >= OverflowMag THEN Inf(n)
        ELSE LET ulp == Pow2(BinadeOf(q))
                 lo == (q \div ulp) * ulp
                 hi == lo + ulp
                 pick == IF 2 * num < (lo + hi) * den THEN lo
                         ELSE IF 2 * num > (lo + hi) * den THEN hi
                         ELSE IF (lo \div ulp) % 2 = 0 THEN lo ELSE hi
             IN  IF pick >= OverflowMag THEN Inf(n) ELSE Fin(n, pick)

\* ------------------------------------------------------- f32 arithmetic

FNeg(x) ==
    IF IsNaN(x) THEN NaN ELSE [x EXCEPT !.neg = ~x.neg]

SignedMag(x) == IF x.neg THEN -x.mag ELSE x.mag

FAdd(x, y) ==
    IF IsNaN(x) \/ IsNaN(y) THEN NaN
    ELSE IF IsInf(x) /\ IsInf(y) THEN (IF x.neg = y.neg THEN x ELSE NaN)
    ELSE IF IsInf(x) THEN x
    ELSE IF IsInf(y) THEN y
    ELSE LET s == SignedMag(x) + SignedMag(y)
         IN  IF s = 0 THEN Fin(x.neg /\ y.neg, 0)
             ELSE IF s < 0 THEN Round(TRUE, -s, 1)
             ELSE Round(FALSE, s, 1)

FSub(x, y) == FAdd(x, FNeg(y))

FMul(x, y) ==
    IF IsNaN(x) \/ IsNaN(y) THEN NaN
    ELSE IF (IsInf(x) /\ IsZero(y)) \/ (IsZero(x) /\ IsInf(y)) THEN NaN
    ELSE IF IsInf(x) \/ IsInf(y) THEN Inf(x.neg # y.neg)
    ELSE IF y.mag > 0 /\ x.mag > (OverflowMag * OneMag) \div y.mag
        THEN Inf(x.neg # y.neg)
    ELSE Round(x.neg # y.neg, x.mag * y.mag, OneMag)

FDiv(x, y) ==
    IF IsNaN(x) \/ IsNaN(y) THEN NaN
    ELSE IF (IsInf(x) /\ IsInf(y)) \/ (IsZero(x) /\ IsZero(y)) THEN NaN
    ELSE IF IsInf(x) \/ IsZero(y) THEN Inf(x.neg # y.neg)
    ELSE IF IsInf(y) THEN Fin(x.neg # y.neg, 0)
    ELSE Round(x.neg # y.neg, x.mag * OneMag, y.mag)

\* floor(sqrt(q)), one bit at a time from the top.
RECURSIVE ISqrt(_, _, _)
ISqrt(q, bit, r) ==
    IF bit = 0 THEN r
    ELSE IF (r + bit) * (r + bit) <= q THEN ISqrt(q, bit \div 2, r + bit)
    ELSE ISqrt(q, bit \div 2, r)

\* The correctly rounded square root of magnitude m: the root of m * 2^Frac
\* in units, to nearest (a tie cannot happen: the midpoint's square is no
\* integer multiple of the unit).
SqrtMag(m) ==
    LET q == m * OneMag
        root == ISqrt(q, OverflowMag, 0)
        ulp == Pow2(BinadeOf(root))
        lo == (root \div ulp) * ulp
        hi == lo + ulp
    IN  IF lo * lo = q THEN lo
        ELSE IF (lo + hi) * (lo + hi) > 4 * q THEN lo
        ELSE hi

FSqrt(x) ==
    IF IsNaN(x) THEN NaN
    ELSE IF IsZero(x) THEN x
    ELSE IF x.neg THEN NaN
    ELSE IF IsInf(x) THEN x
    ELSE Fin(FALSE, SqrtMag(x.mag))

\* ==, < and > of f32: false whenever an operand is NaN; -0.0 == 0.0.
FEq(x, y) ==
    /\ ~IsNaN(x) /\ ~IsNaN(y)
    /\ \/ IsZero(x) /\ IsZero(y)
       \/ x = y

FLt(x, y) ==
    /\ ~IsNaN(x) /\ ~IsNaN(y)
    /\ ~FEq(x, y)
    /\ \/ IsInf(x) /\ x.neg
       \/ IsInf(y) /\ ~y.neg
       \/ IsFin(x) /\ IsFin(y) /\ SignedMag(x) < SignedMag(y)

FGt(x, y) == FLt(y, x)

\* The literals 0.0, 1.0 and 2.0 of the source, and the largest finite value.
PZero == Fin(FALSE, 0)
One == Fin(FALSE, OneMag)
Two == Fin(FALSE, 2 * OneMag)
MaxF == Fin(FALSE, MaxMag)

\* ------------------------------------------------------------------ Vec3

Vec(x, y, z) == [x |-> x, y |-> y, z |-> z]

zero == Vec(PZero, PZero, PZero)

is_zero(v) == FEq(v.x, PZero) /\ FEq(v.y, PZero) /\ FEq(v.z, PZero)

\* #[derive(PartialEq)]: component-wise f32 ==.
VecEq(u, v) == FEq(u.x, v.x) /\ FEq(u.y, v.y) /\ FEq(u.z, v.z)

\* A From that checks only that three elements are there, and truncates.
from_truncating(sl) ==
    IF Len(sl) < 3 THEN [panicked |-> TRUE, vec |-> <<>>]
    ELSE [panicked |-> FALSE, vec |-> <<Vec(sl[1], sl[2], sl[3])>>]

\* From<&[f32]>: assert_eq!(slice.len(), 3) panics and nothing is returned
\* (vec is empty), otherwise vec holds the vector of the three elements.
from(sl) ==
    IF Len(sl) # 3 THEN [panicked |-> TRUE, vec |-> <<>>]
    ELSE [panicked |-> FALSE, vec |-> <<Vec(sl[1], sl[2], sl[3])>>]

\* A scaling whose z is computed from y.
mul_z_from_y(v, scalar) ==
    Vec(FMul(v.x, scalar), FMul(v.y, scalar), FMul(v.y, scalar))

mul(v, scalar) ==
    Vec(FMul(v.x, scalar), FMul(v.y, scalar), FMul(v.z, scalar))

add(u, v) == Vec(FAdd(u.x, v.x), FAdd(u.y, v.y), FAdd(u.z, v.z))

sub(u, v) == Vec(FSub(u.x, v.x), FSub(u.y, v.y), FSub(u.z, v.z))

neg(v) == Vec(FNeg(v.x), FNeg(v.y), FNeg(v.z))

new(x, y, z) == Vec(x, y, z)

\* A cross product with a wrong index in z.
cross_wrong_index(u, v) ==
    Vec(FSub(FMul(u.y, v.z), FMul(u.z, v.y)),
        FSub(FMul(u.z, v.x), FMul(u.x, v.z)),
        FSub(FMul(u.x, v.y), FMul(u.y, v.z)))

\* A cross product with a wrong sign in x.
cross_wrong_sign(u, v) ==
    Vec(FAdd(FMul(u.y, v.z), FMul(u.z, v.y)),
        FSub(FMul(u.z, v.x), FMul(u.x, v.z)),
        FSub(FMul(u.x, v.y), FMul(u.y, v.x)))

cross(u, v) ==
    Vec(FSub(FMul(u.y, v.z), FMul(u.z, v.y)),
        FSub(FMul(u.z, v.x), FMul(u.x, v.z)),
        FSub(FMul(u.x, v.y), FMul(u.y, v.x)))

dot(u, v) ==
    FAdd(FAdd(FMul(u.x, v.x), FMul(u.y, v.y)), FMul(u.z, v.z))

\* A length that forgets the square root.
length_squared(v) == dot(v, v)

length(v) == FSqrt(dot(v, v))

\* A normalized that guards the zero length.
normalized_guarded(v) ==
    IF FEq(FSqrt(dot(v, v)), PZero) THEN v
    ELSE Vec(FDiv(v.x, FSqrt(dot(v, v))), FDiv(v.y, FSqrt(dot(v, v))),
             FDiv(v.z, FSqrt(dot(v, v))))

normalized(v) ==
    LET len == length(v)
    IN  Vec(FDiv(v.x, len), FDiv(v.y, len), FDiv(v.z, len))

\* A reflect that normalizes the normal first.
reflect_normalizing(v, normal) ==
    sub(v, mul(mul(normalized(normal), dot(v, normalized(normal))), Two))

\* A reflect that forgets the factor 2 (a projection onto the plane).
reflect_projecting(v, normal) == sub(v, mul(normal, dot(v, normal)))

reflect(v, normal) == sub(v, mul(mul(normal, dot(v, normal)), Two))

\* The locals of refract: dot_ni, the shadowing eta, and k.
refract_dot_ni(v, normal) == dot(v, normal)

\* An index flip that treats dot_ni == 0 as leaving the medium.
refract_eta_ge(v, normal, eta) ==
    IF FGt(refract_dot_ni(v, normal), PZero)
       \/ FEq(refract_dot_ni(v, normal), PZero)
        THEN eta
    ELSE FDiv(One, eta)

refract_eta(v, normal, eta) ==
    IF FGt(refract_dot_ni(v, normal), PZero) THEN eta ELSE FDiv(One, eta)

refract_k(v, normal, eta) ==
    LET dot_ni == refract_dot_ni(v, normal)
        e == refract_eta(v, normal, eta)
    IN  FSub(One, FMul(FMul(e, e), FSub(One, FMul(dot_ni, dot_ni))))

\* A refract with the textbook convention: the zero vector when k < 0.
refract_zero_on_tir(v, normal, eta) ==
    LET dot_ni == refract_dot_ni(v, normal)
        e == refract_eta(v, normal, eta)
        k == refract_k(v, normal, eta)
    IN  IF FLt(k, PZero) THEN zero
        ELSE normalized(sub(mul(v, e),
                            mul(normal, FAdd(FMul(e, dot_ni), FSqrt(k)))))

\* The method call .normalized() applies to the whole if-else expression.
refract(v, normal, eta) ==
    LET dot_ni == refract_dot_ni(v, normal)
        e == refract_eta(v, normal, eta)
        k == refract_k(v, normal, eta)
    IN  normalized(IF FLt(k, PZero) THEN mul(v, e)
                   ELSE sub(mul(v, e),
                            mul(normal, FAdd(FMul(e, dot_ni), FSqrt(k)))))

\* ------------------------------------------------------- sample operands

NZero == Fin(TRUE, 0)
NegOne == Fin(TRUE, OneMag)
Half == Fin(FALSE, OneMag \div 2)
Three == Fin(FALSE, 3 * OneMag)
NegThree == Fin(TRUE, 3 * OneMag)
Four == Fin(FALSE, 4 * OneMag)
MinF == Fin(FALSE, 1)
PInf == Inf(FALSE)
NInf == Inf(TRUE)

Vecs(S) == {Vec(x, y, z) : x \in S, y \in S, z \in S}

MaxLen == 4
SliceElems == {One, Two, Three, NaN}
Slices == UNION {[1..n -> SliceElems] : n \in 0..MaxLen}

\* Operands of the one-vector operations.
UnaryF ==
    {NaN, PInf, NInf, PZero, NZero, One, NegOne, Half, Three, Four, MaxF,
     MinF}
ScalarF == {One, Two, Half, NegOne, PZero, NaN, PInf, MaxF}

\* Operands of the two-vector operations.
LeftF == {NaN, NInf, PZero, One, NegThree, MaxF, MinF, Half}
RightF == {PZero, One, NegOne, Half, MinF, PInf}

\* Operands of refract.
IncidentF == {PZero, One, MinF, Half, Four, PInf}
NormalF == {PZero, One, NegOne}
EtaF == {PZero, NZero, Half, One, Two, Three, NegOne, MaxF, PInf, NaN}

\* ------------------------------------------------------------ the machine

VARIABLES
    op,        \* the operation called: "idle" before the call
    a,         \* self
    b,         \* other / normal
    s,         \* scalar / eta
    slice,     \* the argument of From<&[f32]>
    retv,      \* the vector returned
    rets,      \* the scalar returned
    panicked   \* whether the call panicked

vars == <<op, a, b, s, slice, retv, rets, panicked>>

Idle ==
    /\ op = "idle"
    /\ retv = zero
    /\ rets = PZero
    /\ panicked = FALSE

InitFrom ==
    /\ Idle
    /\ slice \in Slices
    /\ a = zero /\ b = zero /\ s = One

\* v op zero(), v op v, v * scalar.
InitArith ==
    /\ Idle
    /\ slice = <<>>
    /\ a \in Vecs(UnaryF)
    /\ \/ b \in {zero, a} /\ s = One
       \/ b = zero /\ s \in ScalarF

InitPair ==
    /\ Idle
    /\ slice = <<>>
    /\ a \in Vecs(LeftF)
    /\ b \in Vecs(RightF)
    /\ s = One

InitUnary ==
    /\ Idle
    /\ slice = <<>>
    /\ a \in Vecs(UnaryF)
    /\ b = zero /\ s = One

InitRefract ==
    /\ Idle
    /\ slice = <<>>
    /\ a \in Vecs(IncidentF)
    /\ b \in Vecs(NormalF)
    /\ s \in EtaF

ReturnVec(name, v) ==
    /\ op = "idle"
    /\ op' = name
    /\ retv' = v
    /\ UNCHANGED <<a, b, s, slice, rets, panicked>>

ReturnScalar(name, x) ==
    /\ op = "idle"
    /\ op' = name
    /\ rets' = x
    /\ UNCHANGED <<a, b, s, slice, retv, panicked>>

From ==
    /\ op = "idle"
    /\ op' = "from"
    /\ panicked' = from(slice).panicked
    /\ retv' = IF from(slice).panicked THEN retv ELSE from(slice).vec[1]
    /\ UNCHANGED <<a, b, s, slice, rets>>

Mul == ReturnVec("mul", mul(a, s))
Add == ReturnVec("add", add(a, b))
Sub == ReturnVec("sub", sub(a, b))
Neg == ReturnVec("neg", neg(a))
Cross == ReturnVec("cross", cross(a, b))
Dot == ReturnScalar("dot", dot(a, b))
Length == ReturnScalar("length", length(a))
Normalized == ReturnVec("normalized", normalized(a))
Reflect == ReturnVec("reflect", reflect(a, b))
Refract == ReturnVec("refract", refract(a, b, s))

NextFrom == From
NextArith == Add \/ Sub \/ Mul \/ Neg
NextPair == Add \/ Cross \/ Dot \/ Reflect
NextUnary == Length \/ Normalized
NextRefract == Refract

SpecFrom == InitFrom /\ [][NextFrom]_vars
SpecArith == InitArith /\ [][NextArith]_vars
SpecPair == InitPair /\ [][NextPair]_vars
SpecUnary == InitUnary /\ [][NextUnary]_vars
SpecRefract == InitRefract /\ [][NextRefract]_vars

\* ------------------------------------------------------------ properties

AllFinite(v) == IsFin(v.x) /\ IsFin(v.y) /\ IsFin(v.z)
NoNaN(v) == ~IsNaN(v.x) /\ ~IsNaN(v.y) /\ ~IsNaN(v.z)

\* An operation is exact when its operands are finite and its f32 result is
\* the real result: nothing was rounded, overflowed or underflowed.
ExactMul(x, y) ==
    /\ IsFin(x) /\ IsFin(y) /\ IsFin(FMul(x, y))
    /\ FMul(x, y).mag * OneMag = x.mag * y.mag

ExactAdd(x, y) ==
    /\ IsFin(x) /\ IsFin(y) /\ IsFin(FAdd(x, y))
    /\ SignedMag(FAdd(x, y)) = SignedMag(x) + SignedMag(y)

ExactSub(x, y) == ExactAdd(x, FNeg(y))

ExactDot(u, v) ==
    /\ ExactMul(u.x, v.x) /\ ExactMul(u.y, v.y) /\ ExactMul(u.z, v.z)
    /\ ExactAdd(FMul(u.x, v.x), FMul(u.y, v.y))
    /\ ExactAdd(FAdd(FMul(u.x, v.x), FMul(u.y, v.y)), FMul(u.z, v.z))

ExactCross(u, v) ==
    /\ ExactMul(u.y, v.z) /\ ExactMul(u.z, v.y)
    /\ ExactMul(u.z, v.x) /\ ExactMul(u.x, v.z)
    /\ ExactMul(u.x, v.y) /\ ExactMul(u.y, v.x)
    /\ ExactSub(FMul(u.y, v.z), FMul(u.z, v.y))
    /\ ExactSub(FMul(u.z, v.x), FMul(u.x, v.z))
    /\ ExactSub(FMul(u.x, v.y), FMul(u.y, v.x))

\* dot(n, n) == 1 with nothing rounded away.
ExactUnit(normal) == ExactDot(normal, normal) /\ dot(normal, normal) = One

\* C1: From<&[f32]> returns a vector only for a slice of exactly 3 elements,
\* with x, y, z the elements 0, 1, 2; for every other length it panics and
\* returns nothing (no truncation, no padding).
C1_FromExactlyThree ==
    op = "from" =>
        /\ panicked <=> Len(slice) # 3
        /\ panicked => retv = zero
        /\ ~panicked =>
            /\ Len(slice) = 3
            /\ retv.x = slice[1] /\ retv.y = slice[2] /\ retv.z = slice[3]

C1_Witness == op = "from" /\ Len(slice) = 4 /\ panicked

\* The effective index and the discriminant as the claims C2 and C3 state
\* them.
EffectiveEta ==
    IF FGt(dot(a, b), PZero) THEN s ELSE FDiv(One, s)

DiscriminantK ==
    FSub(One,
         FMul(FMul(EffectiveEta, EffectiveEta),
              FSub(One, FMul(dot(a, b), dot(a, b)))))

Selected ==
    IF FLt(DiscriminantK, PZero) THEN mul(a, EffectiveEta)
    ELSE sub(mul(a, EffectiveEta),
             mul(b, FAdd(FMul(EffectiveEta, dot(a, b)), FSqrt(DiscriminantK))))

\* normalized(w) is the zero vector: every component of w is finite and is
\* divided by a length that overflowed to infinity.
LengthOverflows(w) == AllFinite(w) /\ length(w) = PInf

\* C2 as stated: in refract, when k < 0 the result is normalized(a * eta_eff)
\* and never the zero vector, and in both branches the selected vector is
\* normalized before it is returned.
C2_Original ==
    op = "refract" =>
        /\ retv = normalized(Selected)
        /\ FLt(DiscriminantK, PZero) =>
            /\ retv = normalized(mul(a, EffectiveEta))
            /\ ~is_zero(retv)

\* C2 amended: in refract, when k < 0 the result is normalized(a * eta_eff);
\* it is the zero vector exactly when the length of a * eta_eff overflows to
\* infinity while its components are finite; in both branches the selected
\* vector is normalized before it is returned.
C2_TotalInternalReflection ==
    op = "refract" =>
        /\ retv = normalized(Selected)
        /\ FLt(DiscriminantK, PZero) =>
            /\ retv = normalized(mul(a, EffectiveEta))
            /\ is_zero(retv) <=> LengthOverflows(mul(a, EffectiveEta))

C2_Witness ==
    /\ op = "refract"
    /\ a = new(One, PZero, PZero) /\ b = new(PZero, One, PZero) /\ s = Half
    /\ FLt(DiscriminantK, PZero)
    /\ retv = normalized(mul(a, Two))
    /\ VecEq(retv, new(One, PZero, PZero))

\* C3: in refract the effective index is eta exactly when dot(a, normal) > 0
\* and 1/eta otherwise (dot == 0 included); it is the index used in k and in
\* the vector a * eta - normal * (eta * dot_ni + sqrt(k)) that is returned
\* (normalized) when k is not negative.
C3_EffectiveIndex ==
    op = "refract" =>
        /\ FGt(dot(a, b), PZero) => refract_eta(a, b, s) = s
        /\ ~FGt(dot(a, b), PZero) => refract_eta(a, b, s) = FDiv(One, s)
        /\ FEq(dot(a, b), PZero) => refract_eta(a, b, s) = FDiv(One, s)
        /\ refract_k(a, b, s) = DiscriminantK
        /\ ~FLt(DiscriminantK, PZero) =>
            retv = normalized(
                sub(mul(a, EffectiveEta),
                    mul(b, FAdd(FMul(EffectiveEta, dot(a, b)),
                                FSqrt(DiscriminantK)))))

C3_Witness ==
    /\ op = "refract"
    /\ FEq(dot(a, b), PZero)
    /\ s # FDiv(One, s)
    /\ FGt(DiscriminantK, PZero)
    /\ AllFinite(retv)
    /\ ~is_zero(a) /\ ~is_zero(b)

\* C4 as stated: for all vectors v, v + zero() == v, v - v == zero(),
\* v * 1 == v and -(-v) == v.
C4_Original ==
    /\ op = "add" /\ b = zero => VecEq(retv, a)
    /\ op = "sub" /\ b = a => VecEq(retv, zero)
    /\ op = "mul" /\ s = One => VecEq(retv, a)
    /\ op = "neg" => VecEq(neg(retv), a)

\* C4 amended: v + zero() == v, v * 1 == v and -(-v) == v hold exactly for the
\* vectors v with no NaN component, and v - v == zero() exactly for the
\* vectors v whose components are all finite.
C4_IdentityLaws ==
    /\ op = "add" /\ b = zero => (VecEq(retv, a) <=> NoNaN(a))
    /\ op = "sub" /\ b = a => (VecEq(retv, zero) <=> AllFinite(a))
    /\ op = "mul" /\ s = One => (VecEq(retv, a) <=> NoNaN(a))
    /\ op = "neg" => (VecEq(neg(retv), a) <=> NoNaN(a))

C4_Witness ==
    /\ op = "sub" /\ b = a
    /\ AllFinite(a) /\ ~is_zero(a)
    /\ VecEq(retv, zero)

\* C5 as stated: for all vectors a and b, a + b == b + a and
\* cross(a, b) == -cross(b, a), with cross as the component formula.
C5_Original ==
    /\ op = "add" => VecEq(retv, add(b, a))
    /\ op = "cross" =>
        /\ retv = Vec(FSub(FMul(a.y, b.z), FMul(a.z, b.y)),
                      FSub(FMul(a.z, b.x), FMul(a.x, b.z)),
                      FSub(FMul(a.x, b.y), FMul(a.y, b.x)))
        /\ VecEq(retv, neg(cross(b, a)))

\* C5 amended: a + b == b + a holds exactly when no component of a + b is NaN,
\* and cross(a, b) == -cross(b, a) exactly when no component of cross(a, b) is
\* NaN; cross is the component formula.
C5_Commutativity ==
    /\ op = "add" => (VecEq(retv, add(b, a)) <=> NoNaN(retv))
    /\ op = "cross" =>
        /\ retv = Vec(FSub(FMul(a.y, b.z), FMul(a.z, b.y)),
                      FSub(FMul(a.z, b.x), FMul(a.x, b.z)),
                      FSub(FMul(a.x, b.y), FMul(a.y, b.x)))
        /\ VecEq(retv, neg(cross(b, a))) <=> NoNaN(retv)

C5_Witness ==
    /\ op = "cross"
    /\ NoNaN(retv) /\ ~is_zero(retv)
    /\ VecEq(retv, neg(cross(b, a)))

\* Within some tolerance of 0, however large: a finite value.
WithinTolerance(x) == IsFin(x) /\ x.mag <= MaxMag

C7_ReflectInPlane ==
    /\ op = "reflect" =>
        /\ retv = sub(a, mul(mul(b, dot(a, b)), Two))
        /\ FEq(dot(a, b), PZero) => VecEq(retv, a)
    /\ (/\ op = "reflect"
        /\ a = new(One, PZero, PZero)
        /\ b = new(PZero, One, PZero)) => VecEq(retv, new(One, PZero, PZero))

C7_Witness ==
    /\ op = "reflect"
    /\ FEq(dot(a, b), PZero)
    /\ ~is_zero(a) /\ ~is_zero(b)
    /\ ~FEq(dot(b, b), One)
    /\ VecEq(retv, a)

\* C8: length(v) is sqrt(dot(v, v)): >= 0 for every finite v, 0 for the zero
\* vector, and the exact root when dot(v, v) is a perfect square;
\* length((3,4,0)) == 5.
C8_Length ==
    /\ op = "length" =>
        /\ rets = FSqrt(dot(a, a))
        /\ AllFinite(a) => (FGt(rets, PZero) \/ FEq(rets, PZero))
        /\ is_zero(a) => FEq(rets, PZero)
        /\ \A r \in RepMags :
               (IsFin(dot(a, a)) /\ r * r = dot(a, a).mag * OneMag)
                   => rets = Fin(FALSE, r)
    /\ op = "length" /\ a = new(Three, Four, PZero)
           => rets = Fin(FALSE, 5 * OneMag)

C8_Witness ==
    /\ op = "length"
    /\ a = new(Three, Four, PZero)
    /\ rets = Fin(FALSE, 5 * OneMag)

\* C9: normalized has no guard and no error outcome: every component is
\* divided by length(v), so normalized of the zero vector does not panic and
\* returns components that are NaN or infinite.
C9_NormalizedUnguarded ==
    op = "normalized" =>
        /\ ~panicked
        /\ retv = Vec(FDiv(a.x, length(a)), FDiv(a.y, length(a)),
                      FDiv(a.z, length(a)))
        /\ is_zero(a) =>
            /\ IsNaN(retv.x) \/ IsInf(retv.x)
            /\ IsNaN(retv.y) \/ IsInf(retv.y)
            /\ IsNaN(retv.z) \/ IsInf(retv.z)

C9_Witness ==
    /\ op = "normalized"
    /\ is_zero(a)
    /\ IsNaN(retv.x) /\ IsNaN(retv.y) /\ IsNaN(retv.z)

\* A non-unit normal and a vector for which neither law of C10 holds.
HalfNormal == new(Half, PZero, PZero)
UnitX == new(One, PZero, PZero)

NonUnitBreaksBoth ==
    (op = "reflect" /\ a = UnitX /\ b = HalfNormal) =>
        /\ ~FEq(dot(b, b), One)
        /\ ~VecEq(reflect(retv, b), a)
        /\ ~FEq(dot(retv, retv), dot(a, a))

\* C10 as stated: for every a and every n with dot(n, n) == 1,
\* reflect(reflect(a, n), n) == a and dot(reflect(a, n), reflect(a, n)) ==
\* dot(a, a); for a non-unit normal neither is guaranteed.
C10_Original ==
    /\ op = "reflect" /\ FEq(dot(b, b), One) =>
        /\ VecEq(reflect(retv, b), a)
        /\ FEq(dot(retv, retv), dot(a, a))
    /\ NonUnitBreaksBoth

\* C10 amended: for every a with finite components and every n with
\* dot(n, n) == 1 exactly (nothing rounded or underflowed in dot(n, n)), if
\* reflect(a, n) has finite components (nothing overflowed) then
\* reflect(reflect(a, n), n) == a and dot(reflect(a, n), reflect(a, n)) ==
\* dot(a, a); for a non-unit normal neither is guaranteed.
C10_ReflectInvolution ==
    /\ (/\ op = "reflect"
        /\ ExactUnit(b)
        /\ AllFinite(a)
        /\ AllFinite(retv)) =>
        /\ VecEq(reflect(retv, b), a)
        /\ FEq(dot(retv, retv), dot(a, a))
    /\ NonUnitBreaksBoth

C10_Witness ==
    /\ op = "reflect"
    /\ ExactUnit(b) /\ AllFinite(a) /\ AllFinite(retv)
    /\ ~FEq(dot(a, b), PZero)
    /\ ~VecEq(retv, a)
    /\ VecEq(reflect(retv, b), a)

====
